---- MODULE Spec2Model ----
(***************************************************************************)
(* Model of pkg/sdn/plugin/master.go: StartMaster, the master-side         *)
(* reconciliation of the persisted ClusterNetwork record, and the two      *)
(* validators it runs before a Create or an Update:                        *)
(* checkClusterNetworkAgainstLocalNetworks and                             *)
(* checkClusterNetworkAgainstClusterObjects.                               *)
(*                                                                         *)
(* Strings are modelled by their content: a string is a record             *)
(*   [kind, ip, len, txt]                                                  *)
(* where kind "cidr" is the text "a.b.c.d/len", kind "ip" is the text      *)
(* "a.b.c.d", kind "cidr6" and "ip6" are the text of an IPv6 network and   *)
(* of an IPv6 address (ip holds its 16 bytes), and kind "text" is any      *)
(* other text (txt). An address (net.IP) is a sequence of 4 or of 16       *)
(* bytes; the parsers return the 16-byte form, as package net does.        *)
(***************************************************************************)
EXTENDS Integers, Sequences, FiniteSets, TLC

\* ------------------------------------------------------------------------
\* Bounds of the model
\* ------------------------------------------------------------------------

\* Number of StartMaster invocations followed in one behaviour.
MaxInvocations == 2

\* Largest fleet (HostSubnets plus Services) drawn by the audit specification.
MaxFleet == 3

\* ------------------------------------------------------------------------
\* Strings, addresses and networks
\* ------------------------------------------------------------------------

CIDRStr(a, b, c, d, l) == [kind |-> "cidr", ip |-> <<a, b, c, d>>, len |-> l, txt |-> ""]

IPStr(a, b, c, d) == [kind |-> "ip", ip |-> <<a, b, c, d>>, len |-> 0, txt |-> ""]

\* The text of an IPv6 network and of an IPv6 address, b its 16 bytes.
CIDR6Str(b, l) == [kind |-> "cidr6", ip |-> b, len |-> l, txt |-> ""]

IP6Str(b) == [kind |-> "ip6", ip |-> b, len |-> 0, txt |-> ""]

Text(t) == [kind |-> "text", ip |-> <<>>, len |-> 0, txt |-> t]

RECURSIVE Pow2(_)
Pow2(n) == IF n = 0 THEN 1 ELSE 2 * Pow2(n - 1)

Min(a, b) == IF a < b THEN a ELSE b

Max(a, b) == IF a > b THEN a ELSE b

\* Number of bits of byte i a prefix of length len covers.
MaskBits(i, len) == Max(0, Min(8, len - 8 * (i - 1)))

\* net.IP.Mask: the address with the bits outside the prefix cleared.
IPMask(ip, len) ==
    [i \in 1..Len(ip) |-> ip[i] - (ip[i] % Pow2(8 - MaskBits(i, len)))]

ValidBytes(ip, n) == Len(ip) = n /\ \A i \in 1..n : ip[i] \in 0..255

NilIP == <<>>

NilNet == [IP |-> NilIP, Len |-> 0]

\* The 12 bytes that precede an IPv4 address in its 16-byte form.
V4InV6Prefix == <<0, 0, 0, 0, 0, 0, 0, 0, 0, 0, 255, 255>>

\* net.IPv4: the 16-byte form of an IPv4 address.
IPv4(ip4) == V4InV6Prefix \o ip4

\* net.IP.To4: the 4-byte form of an IPv4 address, nil for any other address.
To4(ip) ==
    IF Len(ip) = 4 THEN ip
    ELSE IF Len(ip) = 16 /\ SubSeq(ip, 1, 12) = V4InV6Prefix THEN SubSeq(ip, 13, 16)
    ELSE NilIP

\* net.ParseCIDR: (ip, ipnet, err). ip is the address as written, in 16-byte
\* form; ipnet is the network it lies in (the address masked by the prefix),
\* of 4 bytes for IPv4 text and of 16 bytes for IPv6 text.
ParseCIDR(s) ==
    IF s.kind = "cidr" /\ ValidBytes(s.ip, 4) /\ s.len \in 0..32
    THEN [ip |-> IPv4(s.ip), net |-> [IP |-> IPMask(s.ip, s.len), Len |-> s.len],
          ok |-> TRUE]
    ELSE IF s.kind = "cidr6" /\ ValidBytes(s.ip, 16) /\ s.len \in 0..128
    THEN [ip |-> s.ip, net |-> [IP |-> IPMask(s.ip, s.len), Len |-> s.len], ok |-> TRUE]
    ELSE [ip |-> NilIP, net |-> NilNet, ok |-> FALSE]

\* net.ParseIP: the address in 16-byte form, or nil when the text is neither
\* an IPv4 nor an IPv6 address.
ParseIP(s) ==
    IF s.kind = "ip" /\ ValidBytes(s.ip, 4) THEN IPv4(s.ip)
    ELSE IF s.kind = "ip6" /\ ValidBytes(s.ip, 16) THEN s.ip
    ELSE NilIP

\* net.networkNumberAndMask: the network with an IPv4 address in 4-byte form.
networkNumberAndMask(n) ==
    IF Len(n.IP) = 16 /\ To4(n.IP) /= NilIP
    THEN [IP |-> To4(n.IP), Len |-> Max(0, n.Len - 96)]
    ELSE n

\* (*net.IPNet).Contains: an IPv4 address is tested in 4-byte form; an address
\* of the other family is not contained.
Contains(n, ip) ==
    LET nn == networkNumberAndMask(n)
        x == IF To4(ip) /= NilIP THEN To4(ip) ELSE ip
    IN  /\ Len(x) = Len(nn.IP)
        /\ IPMask(x, nn.Len) = IPMask(nn.IP, nn.Len)

\* (*net.IPNet).String
IPNetString(n) ==
    LET nn == networkNumberAndMask(n)
    IN  IF Len(nn.IP) = 4
        THEN CIDRStr(nn.IP[1], nn.IP[2], nn.IP[3], nn.IP[4], nn.Len)
        ELSE CIDR6Str(nn.IP, nn.Len)

\* ------------------------------------------------------------------------
\* Errors
\* ------------------------------------------------------------------------

NilErr == [kind |-> "nil", errs |-> <<>>]

Err(k) == [kind |-> k, errs |-> <<>>]

Violation(m, a, n) == [msg |-> m, arg |-> a, net |-> n]

\* NewAggregate keeping the first error only.
NewAggregate_FirstOnly(errList) ==
    IF Len(errList) = 0 THEN NilErr ELSE [kind |-> "Aggregate", errs |-> <<Head(errList)>>]

\* kerrors.NewAggregate: nil for an empty list, else one error holding the
\* whole list in order.
NewAggregate(errList) ==
    IF Len(errList) = 0 THEN NilErr ELSE [kind |-> "Aggregate", errs |-> errList]

\* ------------------------------------------------------------------------
\* Plugin names, NetworkInfo
\* ------------------------------------------------------------------------

SingleTenantPluginName == "redhat/openshift-ovs-subnet"

MultiTenantPluginName == "redhat/openshift-ovs-multitenant"

NetworkPolicyPluginName == "redhat/openshift-ovs-networkpolicy"

ClusterNetworkDefault == "default"

IsOpenShiftNetworkPlugin(name) ==
    name \in {SingleTenantPluginName, MultiTenantPluginName, NetworkPolicyPluginName}

NilInfo == [ClusterNetwork |-> NilNet, ServiceNetwork |-> NilNet]

CIDRsOverlap(a, b) == Contains(a, b.IP) \/ Contains(b, a.IP)

\* parseNetworkInfo: both strings parse, neither prefix is degenerate, and
\* the two networks do not overlap.
parseNetworkInfo(clusterNetwork, serviceNetwork) ==
    LET c == ParseCIDR(clusterNetwork)
        s == ParseCIDR(serviceNetwork)
    IN  IF ~c.ok \/ ~s.ok \/ c.net.Len = 0 \/ s.net.Len = 0
        THEN [info |-> NilInfo, err |-> Err("ConfigurationError")]
        ELSE IF CIDRsOverlap(c.net, s.net)
        THEN [info |-> NilInfo, err |-> Err("ConfigurationError")]
        ELSE [info |-> [ClusterNetwork |-> c.net, ServiceNetwork |-> s.net],
              err |-> NilErr]

\* (*NetworkInfo).checkHostNetworks: one violation per host network that
\* intersects the cluster network, aggregated.
RECURSIVE HostConflicts(_, _)
HostConflicts(ni, nets) ==
    IF Len(nets) = 0 THEN <<>>
    ELSE (IF CIDRsOverlap(Head(nets), ni.ClusterNetwork)
          THEN <<Violation("cluster IP conflicts with host network",
                           IPNetString(Head(nets)), IPNetString(ni.ClusterNetwork))>>
          ELSE <<>>) \o HostConflicts(ni, Tail(nets))

checkHostNetworks(ni, hostIPNets) == NewAggregate(HostConflicts(ni, hostIPNets))

\* ------------------------------------------------------------------------
\* checkClusterNetworkAgainstClusterObjects
\* ------------------------------------------------------------------------

\* The body of the loop over subnets.Items: the errors one HostSubnet adds.
SubnetErrors(ni, sub) ==
    LET subnetIP == ParseCIDR(sub).ip
    IN  IF subnetIP = NilIP
        THEN <<Violation("failed to parse network address", sub, Text(""))>>
        ELSE IF ~Contains(ni.ClusterNetwork, subnetIP)
        THEN <<Violation("existing node subnet is not part of cluster network",
                         sub, IPNetString(ni.ClusterNetwork))>>
        ELSE <<>>

\* ScanSubnets leaving the loop at the first subnet that fails to parse
\* (break where the code has continue).
RECURSIVE ScanSubnets_StopAtParseFailure(_, _)
ScanSubnets_StopAtParseFailure(ni, subs) ==
    IF Len(subs) = 0 THEN <<>>
    ELSE IF ParseCIDR(Head(subs)).ip = NilIP THEN SubnetErrors(ni, Head(subs))
    ELSE SubnetErrors(ni, Head(subs)) \o ScanSubnets_StopAtParseFailure(ni, Tail(subs))

\* The loop over subnets.Items, in list order.
RECURSIVE ScanSubnets(_, _)
ScanSubnets(ni, subs) ==
    IF Len(subs) = 0 THEN <<>>
    ELSE SubnetErrors(ni, Head(subs)) \o ScanSubnets(ni, Tail(subs))

\* ServiceErrors reporting every ClusterIP that is not an address of the
\* service network, unparsable ones included, the empty one excepted.
ServiceErrors_UnparsableReported(ni, clusterIP) ==
    LET svcIP == ParseIP(clusterIP)
    IN  IF clusterIP /= Text("") /\ (svcIP = NilIP \/ ~Contains(ni.ServiceNetwork, svcIP))
        THEN <<Violation("existing service with IP is not part of service network",
                         clusterIP, IPNetString(ni.ServiceNetwork))>>
        ELSE <<>>

\* The body of the loop over services.Items: the errors one Service adds.
ServiceErrors(ni, clusterIP) ==
    LET svcIP == ParseIP(clusterIP)
    IN  IF svcIP /= NilIP /\ ~Contains(ni.ServiceNetwork, svcIP)
        THEN <<Violation("existing service with IP is not part of service network",
                         clusterIP, IPNetString(ni.ServiceNetwork))>>
        ELSE <<>>

\* The loop over services.Items, in list order.
RECURSIVE ScanServices(_, _)
ScanServices(ni, svcs) ==
    IF Len(svcs) = 0 THEN <<>>
    ELSE ServiceErrors(ni, Head(svcs)) \o ScanServices(ni, Tail(svcs))

\* checkClusterNetworkAgainstLocalNetworks. hostErr is the error of
\* netutils.GetHostIPNetworks (NilErr when it succeeds).
checkClusterNetworkAgainstLocalNetworks(ni, nets, hostErr) ==
    IF hostErr /= NilErr THEN hostErr ELSE checkHostNetworks(ni, nets)

\* ------------------------------------------------------------------------
\* The persisted ClusterNetwork record and its client
\* ------------------------------------------------------------------------

\* The store holds no record (<<>>) or the one record named "default".
NilCN ==
    [Name |-> "", Network |-> Text(""), HostSubnetLength |-> 0,
     ServiceNetwork |-> Text(""), PluginName |-> ""]

\* &osapi.ClusterNetwork{ObjectMeta: {Name: ClusterNetworkDefault}}
FreshCN == [NilCN EXCEPT !.Name = ClusterNetworkDefault]

TransportErr == Err("Transport")

\* ClusterNetwork().Get(ClusterNetworkDefault)
ClientGet(store, fault) ==
    IF fault /= NilErr THEN [cn |-> NilCN, err |-> fault]
    ELSE IF Len(store) = 0 THEN [cn |-> NilCN, err |-> Err("NotFound")]
    ELSE [cn |-> store[1], err |-> NilErr]

\* ClusterNetwork().Create(cn)
ClientCreate(store, rec, fault) ==
    IF fault /= NilErr THEN [store |-> store, err |-> fault]
    ELSE IF Len(store) > 0 THEN [store |-> store, err |-> Err("AlreadyExists")]
    ELSE [store |-> <<rec>>, err |-> NilErr]

\* ClusterNetwork().Update(cn)
ClientUpdate(store, rec, fault) ==
    IF fault /= NilErr THEN [store |-> store, err |-> fault]
    ELSE IF Len(store) = 0 THEN [store |-> store, err |-> Err("NotFound")]
    ELSE [store |-> <<rec>>, err |-> NilErr]

\* ConfigDiffers comparing the two networks only.
ConfigDiffers_NetworksOnly(ni, cfg, rec) ==
    \/ IPNetString(ni.ClusterNetwork) /= rec.Network
    \/ IPNetString(ni.ServiceNetwork) /= rec.ServiceNetwork

\* ConfigDiffers comparing the configured CIDR strings as written instead of
\* the String() of the parsed networks.
ConfigDiffers_RawStrings(ni, cfg, rec) ==
    \/ cfg.ClusterNetworkCIDR /= rec.Network
    \/ cfg.HostSubnetLength /= rec.HostSubnetLength
    \/ cfg.ServiceNetworkCIDR /= rec.ServiceNetwork
    \/ cfg.NetworkPluginName /= rec.PluginName

\* The field comparison of StartMaster: TRUE when the record differs from the
\* desired configuration.
ConfigDiffers(ni, cfg, rec) ==
    \/ IPNetString(ni.ClusterNetwork) /= rec.Network
    \/ cfg.HostSubnetLength /= rec.HostSubnetLength
    \/ IPNetString(ni.ServiceNetwork) /= rec.ServiceNetwork
    \/ cfg.NetworkPluginName /= rec.PluginName

\* PopulateCN without the assignment of PluginName.
PopulateCN_PluginNotSet(rec, ni, cfg) ==
    [rec EXCEPT !.Network = IPNetString(ni.ClusterNetwork),
                !.HostSubnetLength = cfg.HostSubnetLength,
                !.ServiceNetwork = IPNetString(ni.ServiceNetwork)]

\* The four assignments that fill the record from the desired configuration.
PopulateCN(rec, ni, cfg) ==
    [rec EXCEPT !.Network = IPNetString(ni.ClusterNetwork),
                !.HostSubnetLength = cfg.HostSubnetLength,
                !.ServiceNetwork = IPNetString(ni.ServiceNetwork),
                !.PluginName = cfg.NetworkPluginName]

\* ------------------------------------------------------------------------
\* Inputs: desired configurations, fleets, host networks
\* ------------------------------------------------------------------------

ScenarioA ==
    [ClusterNetworkCIDR |-> CIDRStr(10, 128, 0, 0, 14),
     ServiceNetworkCIDR |-> CIDRStr(172, 30, 0, 0, 16),
     HostSubnetLength |-> 9,
     NetworkPluginName |-> MultiTenantPluginName]

Configs ==
    { ScenarioA,
      [ScenarioA EXCEPT !.HostSubnetLength = 8],
      [ScenarioA EXCEPT !.ClusterNetworkCIDR = CIDRStr(10, 129, 0, 0, 14)],
      [ScenarioA EXCEPT !.ClusterNetworkCIDR = CIDRStr(10, 128, 0, 0, 16),
                        !.NetworkPluginName = NetworkPolicyPluginName],
      [ScenarioA EXCEPT !.NetworkPluginName = SingleTenantPluginName],
      [ScenarioA EXCEPT !.ClusterNetworkCIDR = Text("bogus")],
      [ScenarioA EXCEPT !.ServiceNetworkCIDR = CIDRStr(10, 130, 0, 0, 16)],
      [ScenarioA EXCEPT !.NetworkPluginName = "cni"],
      [ScenarioA EXCEPT !.ClusterNetworkCIDR = Text("bogus"),
                        !.NetworkPluginName = "cni"] }

\* The bytes of fd00:: and of fd00::1.
FD00 == <<253, 0, 0, 0, 0, 0, 0, 0, 0, 0, 0, 0, 0, 0, 0, 0>>

FD00_1 == <<253, 0, 0, 0, 0, 0, 0, 0, 0, 0, 0, 0, 0, 0, 0, 1>>

\* "fd00::/64" and "::ffff:10.128.0.1/128" stand for the IPv6 texts.
SubnetCandidates ==
    { CIDRStr(10, 131, 0, 0, 23), CIDRStr(192, 168, 0, 0, 24),
      CIDRStr(10, 128, 0, 0, 8), Text("bogus"),
      CIDR6Str(FD00, 64), CIDR6Str(IPv4(<<10, 128, 0, 1>>), 128) }

\* "fd00::1" and "::ffff:192.168.1.5" stand for the IPv6 texts.
ServiceCandidates ==
    { IPStr(172, 30, 0, 5), IPStr(192, 168, 1, 5), Text("None"), Text(""),
      IP6Str(FD00_1), IP6Str(IPv4(<<192, 168, 1, 5>>)) }

BoundedSeq(S, n) == UNION { [1..k -> S] : k \in 0..n }

\* The fleets of the main specification: none; one the desired networks
\* contain; one they do not; one whose HostSubnet is wider than the cluster
\* network.
Fleets ==
    { [subnets |-> <<>>, services |-> <<>>],
      [subnets |-> <<CIDRStr(10, 131, 0, 0, 23), CIDR6Str(IPv4(<<10, 128, 0, 1>>), 128)>>,
       services |-> <<IPStr(172, 30, 0, 5), Text("None"),
                      IP6Str(IPv4(<<172, 30, 0, 5>>))>>],
      [subnets |-> <<CIDRStr(192, 168, 0, 0, 24), Text("bogus"), CIDR6Str(FD00, 64)>>,
       services |-> <<IPStr(192, 168, 1, 5), IP6Str(FD00_1),
                      IP6Str(IPv4(<<192, 168, 1, 5>>))>>],
      [subnets |-> <<CIDRStr(10, 128, 0, 0, 8)>>, services |-> <<Text("")>>] }

HostNetworkOptions ==
    { <<[IP |-> <<192, 168, 122, 0>>, Len |-> 24]>>,
      <<[IP |-> <<192, 168, 122, 0>>, Len |-> 24],
        [IP |-> <<10, 130, 0, 0>>, Len |-> 16]>> }

InitialStores ==
    { <<>>,
      <<PopulateCN(FreshCN, parseNetworkInfo(ScenarioA.ClusterNetworkCIDR,
                                             ScenarioA.ServiceNetworkCIDR).info,
                   ScenarioA)>>,
      <<[Name |-> ClusterNetworkDefault, Network |-> CIDRStr(10, 128, 0, 0, 14),
         HostSubnetLength |-> 9, ServiceNetwork |-> CIDRStr(172, 30, 0, 0, 16),
         PluginName |-> "other/plugin"]>> }

ApiFaults == { NilErr, TransportErr }

HostFaults == { NilErr, Err("HostNetworksError") }

BootstrapFaults == { NilErr, Err("BootstrapError") }

\* The node IPs the subnet allocator may record while it starts.
NodeIPTables == { {}, {<<"node-uid-1", "192.168.122.10">>} }

\* ------------------------------------------------------------------------
\* State
\* ------------------------------------------------------------------------

VARIABLES
    persisted,          \* the ClusterNetwork store: <<>> or <<record>>
    hostSubnets,        \* HostSubnets().List: the Subnet string of each item
    services,           \* Services().List: the Spec.ClusterIP string of each item
    hostIPNets,         \* networks of the local host interfaces (TUN excluded)
    budget,             \* invocations of StartMaster still to come
    pc,                 \* position inside StartMaster
    networkConfig,      \* the argument of the running/last invocation
    networkInfo,        \* master.networkInfo
    cn,                 \* the local cn
    createConfig,
    updateConfig,
    err,                \* the error StartMaster returned (NilErr: nil)
    exitAt,             \* the return statement StartMaster left by
    calls,              \* calls issued by the running/last invocation, in order
    getErr,             \* the error of the Get of this invocation
    pre,                \* the store when the invocation began
    prev,               \* the invocation before this one
    vnids,              \* master.vnids: "nil", "multiTenant" or "shared"
    hostSubnetNodeIPs,  \* master.hostSubnetNodeIPs
    errList             \* the local errList of checkClusterNetworkAgainstClusterObjects

vars ==
    <<persisted, hostSubnets, services, hostIPNets, budget, pc, networkConfig,
      networkInfo, cn, createConfig, updateConfig, err, exitAt, calls, getErr,
      pre, prev, vnids, hostSubnetNodeIPs, errList>>

env == <<hostSubnets, services, hostIPNets>>

NoPrev == [valid |-> FALSE, cfg |-> ScenarioA, err |-> NilErr, exitAt |-> ""]

InitLocals ==
    /\ pc = "idle"
    /\ networkConfig = ScenarioA
    /\ networkInfo = NilInfo
    /\ cn = NilCN
    /\ createConfig = FALSE
    /\ updateConfig = FALSE
    /\ err = NilErr
    /\ exitAt = ""
    /\ calls = <<>>
    /\ getErr = NilErr
    /\ pre = persisted
    /\ prev = NoPrev
    /\ vnids = "nil"
    /\ hostSubnetNodeIPs = {}
    /\ errList = <<>>

Init ==
    /\ persisted \in InitialStores
    /\ \E f \in Fleets : hostSubnets = f.subnets /\ services = f.services
    /\ hostIPNets \in HostNetworkOptions
    /\ budget = MaxInvocations
    /\ InitLocals

\* One invocation against any fleet of bounded size, starting without a record.
InitAudit ==
    /\ persisted = <<>>
    /\ hostSubnets \in BoundedSeq(SubnetCandidates, MaxFleet)
    /\ services \in BoundedSeq(ServiceCandidates, MaxFleet - Len(hostSubnets))
    /\ hostIPNets = <<[IP |-> <<192, 168, 122, 0>>, Len |-> 24]>>
    /\ budget = 1
    /\ InitLocals

\* ------------------------------------------------------------------------
\* StartMaster, one action per call it makes
\* ------------------------------------------------------------------------

\* StartMasterEntry fetching the record before it parses the configuration.
StartMasterEntry_GetBeforeParse ==
    /\ pc \in {"idle", "done"}
    /\ budget > 0
    /\ \E cfg \in Configs :
        /\ networkConfig' = cfg
        /\ IF ~IsOpenShiftNetworkPlugin(cfg.NetworkPluginName)
           THEN /\ pc' = "done"
                /\ exitAt' = "plugin"
                /\ err' = NilErr
                /\ networkInfo' = NilInfo
                /\ calls' = <<>>
                /\ UNCHANGED hostSubnetNodeIPs
           ELSE LET r == parseNetworkInfo(cfg.ClusterNetworkCIDR, cfg.ServiceNetworkCIDR)
                IN  /\ hostSubnetNodeIPs' = {}
                    /\ networkInfo' = r.info
                    /\ calls' = <<"ClusterNetwork.Get", "parseNetworkInfo">>
                    /\ err' = r.err
                    /\ pc' = IF r.err = NilErr THEN "get" ELSE "done"
                    /\ exitAt' = IF r.err = NilErr THEN "" ELSE "parse"
    /\ budget' = budget - 1
    /\ prev' = IF pc = "done"
               THEN [valid |-> TRUE, cfg |-> networkConfig, err |-> err, exitAt |-> exitAt]
               ELSE prev
    /\ pre' = persisted
    /\ cn' = NilCN
    /\ createConfig' = FALSE
    /\ updateConfig' = FALSE
    /\ getErr' = NilErr
    /\ vnids' = "nil"
    /\ errList' = <<>>
    /\ UNCHANGED <<persisted, env>>

\* StartMasterEntry with parseNetworkInfo moved ahead of the plugin test.
StartMasterEntry_ParseFirst ==
    /\ pc \in {"idle", "done"}
    /\ budget > 0
    /\ \E cfg \in Configs :
        LET r == parseNetworkInfo(cfg.ClusterNetworkCIDR, cfg.ServiceNetworkCIDR)
        IN  /\ networkConfig' = cfg
            /\ hostSubnetNodeIPs' = {}
            /\ networkInfo' = r.info
            /\ calls' = <<"parseNetworkInfo">>
            /\ err' = r.err
            /\ pc' = IF r.err = NilErr /\ IsOpenShiftNetworkPlugin(cfg.NetworkPluginName)
                     THEN "get" ELSE "done"
            /\ exitAt' = IF r.err /= NilErr THEN "parse"
                         ELSE IF IsOpenShiftNetworkPlugin(cfg.NetworkPluginName) THEN ""
                         ELSE "plugin"
    /\ budget' = budget - 1
    /\ prev' = IF pc = "done"
               THEN [valid |-> TRUE, cfg |-> networkConfig, err |-> err, exitAt |-> exitAt]
               ELSE prev
    /\ pre' = persisted
    /\ cn' = NilCN
    /\ createConfig' = FALSE
    /\ updateConfig' = FALSE
    /\ getErr' = NilErr
    /\ vnids' = "nil"
    /\ errList' = <<>>
    /\ UNCHANGED <<persisted, env>>

\* Entry: the plugin test, the master object and parseNetworkInfo.
StartMasterEntry ==
    /\ pc \in {"idle", "done"}
    /\ budget > 0
    /\ \E cfg \in Configs :
        /\ networkConfig' = cfg
        /\ IF ~IsOpenShiftNetworkPlugin(cfg.NetworkPluginName)
           THEN /\ pc' = "done"
                /\ exitAt' = "plugin"
                /\ err' = NilErr
                /\ networkInfo' = NilInfo
                /\ calls' = <<>>
                /\ UNCHANGED hostSubnetNodeIPs
           ELSE LET r == parseNetworkInfo(cfg.ClusterNetworkCIDR, cfg.ServiceNetworkCIDR)
                IN  /\ hostSubnetNodeIPs' = {}
                    /\ networkInfo' = r.info
                    /\ calls' = <<"parseNetworkInfo">>
                    /\ err' = r.err
                    /\ pc' = IF r.err = NilErr THEN "get" ELSE "done"
                    /\ exitAt' = IF r.err = NilErr THEN "" ELSE "parse"
    /\ budget' = budget - 1
    /\ prev' = IF pc = "done"
               THEN [valid |-> TRUE, cfg |-> networkConfig, err |-> err, exitAt |-> exitAt]
               ELSE prev
    /\ pre' = persisted
    /\ cn' = NilCN
    /\ createConfig' = FALSE
    /\ updateConfig' = FALSE
    /\ getErr' = NilErr
    /\ vnids' = "nil"
    /\ errList' = <<>>
    /\ UNCHANGED <<persisted, env>>

\* The Get of the record and the choice between create, update and neither.
GetClusterNetwork ==
    /\ pc = "get"
    /\ \E fault \in ApiFaults :
        LET r == ClientGet(persisted, fault)
            create == r.err /= NilErr
            update == r.err = NilErr /\ ConfigDiffers(networkInfo, networkConfig, r.cn)
        IN  /\ getErr' = r.err
            /\ cn' = IF r.err = NilErr THEN r.cn ELSE FreshCN
            /\ createConfig' = create
            /\ updateConfig' = update
            /\ pc' = IF create \/ update THEN "checkLocal" ELSE "subnet"
    /\ calls' = Append(calls, "ClusterNetwork.Get")
    /\ UNCHANGED <<persisted, env, errList, budget, networkConfig, networkInfo, err, exitAt,
                   pre, prev, vnids, hostSubnetNodeIPs>>

\* CheckLocalNetworks with the returned error dropped: the fleet audit and
\* the write follow a failed local check.
CheckLocalNetworks_ErrorDropped ==
    /\ pc = "checkLocal"
    /\ pc' = "checkObjects"
    /\ calls' = Append(calls, "GetHostIPNetworks")
    /\ UNCHANGED <<persisted, env, errList, budget, networkConfig, networkInfo, cn, createConfig,
                   updateConfig, err, exitAt, getErr, pre, prev, vnids, hostSubnetNodeIPs>>

\* if err = master.checkClusterNetworkAgainstLocalNetworks(); err != nil
CheckLocalNetworks ==
    /\ pc = "checkLocal"
    /\ \E hostErr \in HostFaults :
        LET e == checkClusterNetworkAgainstLocalNetworks(networkInfo, hostIPNets, hostErr)
        IN  /\ err' = e
            /\ pc' = IF e = NilErr THEN "checkObjects" ELSE "done"
            /\ exitAt' = IF e = NilErr THEN exitAt ELSE "local"
    /\ calls' = Append(calls, "GetHostIPNetworks")
    /\ UNCHANGED <<persisted, env, errList, budget, networkConfig, networkInfo, cn, createConfig,
                   updateConfig, getErr, pre, prev, vnids, hostSubnetNodeIPs>>

\* CheckClusterObjectsSubnets issuing the List of the Services ahead of the
\* List of the HostSubnets.
CheckClusterObjectsSubnets_ServicesListedFirst ==
    /\ pc = "checkObjects"
    /\ \E subnetsErr \in ApiFaults :
        IF subnetsErr /= NilErr
        THEN /\ err' = Err("SubnetsFetchError")
             /\ pc' = "done"
             /\ exitAt' = "objects"
             /\ UNCHANGED errList
        ELSE /\ errList' = ScanSubnets(networkInfo, hostSubnets)
             /\ pc' = "checkServices"
             /\ UNCHANGED <<err, exitAt>>
    /\ calls' = calls \o <<"Services.List", "HostSubnets.List">>
    /\ UNCHANGED <<persisted, env, budget, networkConfig, networkInfo, cn, createConfig,
                   updateConfig, getErr, pre, prev, vnids, hostSubnetNodeIPs>>

\* CheckClusterObjectsSubnets removing from the fleet the HostSubnets it rejects.
CheckClusterObjectsSubnets_PrunesFleet ==
    /\ pc = "checkObjects"
    /\ \E subnetsErr \in ApiFaults :
        IF subnetsErr /= NilErr
        THEN /\ err' = Err("SubnetsFetchError")
             /\ pc' = "done"
             /\ exitAt' = "objects"
             /\ UNCHANGED <<errList, hostSubnets>>
        ELSE /\ errList' = ScanSubnets(networkInfo, hostSubnets)
             /\ hostSubnets' = SelectSeq(hostSubnets,
                                         LAMBDA sub : SubnetErrors(networkInfo, sub) = <<>>)
             /\ pc' = "checkServices"
             /\ UNCHANGED <<err, exitAt>>
    /\ calls' = Append(calls, "HostSubnets.List")
    /\ UNCHANGED <<persisted, services, hostIPNets, budget, networkConfig, networkInfo, cn,
                   createConfig, updateConfig, getErr, pre, prev, vnids, hostSubnetNodeIPs>>

\* checkClusterNetworkAgainstClusterObjects, first half: the List of the
\* HostSubnets and the loop over its items. A failed List ends the function
\* and, through it, StartMaster, with the wrapped error.
CheckClusterObjectsSubnets ==
    /\ pc = "checkObjects"
    /\ \E subnetsErr \in ApiFaults :
        IF subnetsErr /= NilErr
        THEN /\ err' = Err("SubnetsFetchError")
             /\ pc' = "done"
             /\ exitAt' = "objects"
             /\ UNCHANGED errList
        ELSE /\ errList' = ScanSubnets(networkInfo, hostSubnets)
             /\ pc' = "checkServices"
             /\ UNCHANGED <<err, exitAt>>
    /\ calls' = Append(calls, "HostSubnets.List")
    /\ UNCHANGED <<persisted, env, budget, networkConfig, networkInfo, cn, createConfig,
                   updateConfig, getErr, pre, prev, vnids, hostSubnetNodeIPs>>

\* CheckClusterObjectsServices with the returned error dropped: the write
\* follows even when the audit found violations.
CheckClusterObjectsServices_ErrorDropped ==
    /\ pc = "checkServices"
    /\ \E servicesErr \in ApiFaults :
        errList' = IF servicesErr /= NilErr THEN errList
                   ELSE errList \o ScanServices(networkInfo, services)
    /\ calls' = Append(calls, "Services.List")
    /\ pc' = "write"
    /\ UNCHANGED <<persisted, env, budget, networkConfig, networkInfo, cn, createConfig,
                   updateConfig, err, exitAt, getErr, pre, prev, vnids, hostSubnetNodeIPs>>

\* checkClusterNetworkAgainstClusterObjects, second half: the List of the
\* Services, the loop over its items and the aggregate of errList; then
\* if err = master.checkClusterNetworkAgainstClusterObjects(); err != nil
CheckClusterObjectsServices ==
    /\ pc = "checkServices"
    /\ \E servicesErr \in ApiFaults :
        IF servicesErr /= NilErr
        THEN /\ err' = servicesErr
             /\ pc' = "done"
             /\ exitAt' = "objects"
             /\ UNCHANGED errList
        ELSE LET all == errList \o ScanServices(networkInfo, services)
                 e == NewAggregate(all)
             IN  /\ errList' = all
                 /\ err' = e
                 /\ pc' = IF e = NilErr THEN "write" ELSE "done"
                 /\ exitAt' = IF e = NilErr THEN exitAt ELSE "objects"
    /\ calls' = Append(calls, "Services.List")
    /\ UNCHANGED <<persisted, env, budget, networkConfig, networkInfo, cn, createConfig,
                   updateConfig, getErr, pre, prev, vnids, hostSubnetNodeIPs>>

\* WriteClusterNetwork repeating a failed Create/Update once before it gives up.
WriteClusterNetwork_RetryOnce ==
    /\ pc = "write"
    /\ \E fault \in ApiFaults, again \in ApiFaults :
        LET rec == PopulateCN(cn, networkInfo, networkConfig)
            name == IF createConfig THEN "ClusterNetwork.Create" ELSE "ClusterNetwork.Update"
            first == IF createConfig
                     THEN ClientCreate(persisted, rec, fault)
                     ELSE ClientUpdate(persisted, rec, fault)
            r == IF first.err = NilErr THEN first
                 ELSE IF createConfig
                 THEN ClientCreate(persisted, rec, again)
                 ELSE ClientUpdate(persisted, rec, again)
        IN  /\ cn' = rec
            /\ persisted' = r.store
            /\ err' = r.err
            /\ calls' = IF first.err = NilErr THEN Append(calls, name)
                        ELSE calls \o <<name, name>>
            /\ pc' = IF r.err = NilErr THEN "subnet" ELSE "done"
            /\ exitAt' = IF r.err = NilErr THEN exitAt
                         ELSE IF createConfig THEN "create" ELSE "update"
    /\ UNCHANGED <<env, errList, budget, networkConfig, networkInfo, createConfig, updateConfig,
                   getErr, pre, prev, vnids, hostSubnetNodeIPs>>

\* WriteClusterNetwork with the error of Create/Update not returned: the
\* bootstrap follows a failed write.
WriteClusterNetwork_ErrorDropped ==
    /\ pc = "write"
    /\ \E fault \in ApiFaults :
        LET rec == PopulateCN(cn, networkInfo, networkConfig)
            r == IF createConfig
                 THEN ClientCreate(persisted, rec, fault)
                 ELSE ClientUpdate(persisted, rec, fault)
        IN  /\ cn' = rec
            /\ persisted' = r.store
            /\ calls' = Append(calls, IF createConfig THEN "ClusterNetwork.Create"
                                                      ELSE "ClusterNetwork.Update")
    /\ pc' = "subnet"
    /\ UNCHANGED <<env, errList, budget, networkConfig, networkInfo, createConfig, updateConfig,
                   err, exitAt, getErr, pre, prev, vnids, hostSubnetNodeIPs>>

\* The record is filled from the desired configuration and created or updated.
WriteClusterNetwork ==
    /\ pc = "write"
    /\ \E fault \in ApiFaults :
        LET rec == PopulateCN(cn, networkInfo, networkConfig)
            r == IF createConfig
                 THEN ClientCreate(persisted, rec, fault)
                 ELSE ClientUpdate(persisted, rec, fault)
        IN  /\ cn' = rec
            /\ persisted' = r.store
            /\ err' = r.err
            /\ calls' = Append(calls, IF createConfig THEN "ClusterNetwork.Create"
                                                      ELSE "ClusterNetwork.Update")
            /\ pc' = IF r.err = NilErr THEN "subnet" ELSE "done"
            /\ exitAt' = IF r.err = NilErr THEN exitAt
                         ELSE IF createConfig THEN "create" ELSE "update"
    /\ UNCHANGED <<env, errList, budget, networkConfig, networkInfo, createConfig, updateConfig,
                   getErr, pre, prev, vnids, hostSubnetNodeIPs>>

\* (*OsdnMaster).SubnetStartMaster: fails, or starts the allocator, which
\* records the IP of the nodes it processes in hostSubnetNodeIPs.
SubnetStartMaster(table, fault, nodes) ==
    IF fault /= NilErr THEN [err |-> fault, table |-> table]
    ELSE [err |-> NilErr, table |-> table \cup nodes]

\* if err = master.SubnetStartMaster(...); err != nil
SubnetStart ==
    /\ pc = "subnet"
    /\ \E fault \in BootstrapFaults, nodes \in NodeIPTables :
        LET r == SubnetStartMaster(hostSubnetNodeIPs, fault, nodes)
        IN  /\ err' = r.err
            /\ hostSubnetNodeIPs' = r.table
            /\ pc' = IF r.err = NilErr THEN "vnid" ELSE "done"
            /\ exitAt' = IF r.err = NilErr THEN exitAt ELSE "subnet"
    /\ calls' = Append(calls, "SubnetStartMaster")
    /\ UNCHANGED <<persisted, env, errList, budget, networkConfig, networkInfo, cn, createConfig,
                   updateConfig, getErr, pre, prev, vnids>>

\* VnidStart with the two arguments of newMasterVNIDMap exchanged.
VnidStart_ModesSwapped ==
    /\ pc = "vnid"
    /\ IF networkConfig.NetworkPluginName \in {MultiTenantPluginName, NetworkPolicyPluginName}
       THEN \E fault \in BootstrapFaults :
               /\ vnids' = IF networkConfig.NetworkPluginName = MultiTenantPluginName
                           THEN "shared" ELSE "multiTenant"
               /\ calls' = Append(calls, "VnidStartMaster")
               /\ err' = fault
               /\ exitAt' = IF fault = NilErr THEN "end" ELSE "vnid"
       ELSE /\ err' = NilErr
            /\ exitAt' = "end"
            /\ UNCHANGED <<vnids, calls>>
    /\ pc' = "done"
    /\ UNCHANGED <<persisted, env, errList, budget, networkConfig, networkInfo, cn, createConfig,
                   updateConfig, getErr, pre, prev, hostSubnetNodeIPs>>

\* switch networkConfig.NetworkPluginName { ... } return nil
VnidStart ==
    /\ pc = "vnid"
    /\ IF networkConfig.NetworkPluginName \in {MultiTenantPluginName, NetworkPolicyPluginName}
       THEN \E fault \in BootstrapFaults :
               /\ vnids' = IF networkConfig.NetworkPluginName = MultiTenantPluginName
                           THEN "multiTenant" ELSE "shared"
               /\ calls' = Append(calls, "VnidStartMaster")
               /\ err' = fault
               /\ exitAt' = IF fault = NilErr THEN "end" ELSE "vnid"
       ELSE /\ err' = NilErr
            /\ exitAt' = "end"
            /\ UNCHANGED <<vnids, calls>>
    /\ pc' = "done"
    /\ UNCHANGED <<persisted, env, errList, budget, networkConfig, networkInfo, cn, createConfig,
                   updateConfig, getErr, pre, prev, hostSubnetNodeIPs>>

Next ==
    \/ StartMasterEntry
    \/ GetClusterNetwork
    \/ CheckLocalNetworks
    \/ CheckClusterObjectsSubnets
    \/ CheckClusterObjectsServices
    \/ WriteClusterNetwork
    \/ SubnetStart
    \/ VnidStart

Spec == Init /\ [][Next]_vars

SpecAudit == InitAudit /\ [][Next]_vars

\* ------------------------------------------------------------------------
\* Vocabulary of the properties
\* ------------------------------------------------------------------------

Done == pc = "done"

InCalls(c) == \E i \in 1..Len(calls) : calls[i] = c

Count(c) == Cardinality({i \in 1..Len(calls) : calls[i] = c})

Wrote == InCalls("ClusterNetwork.Create") \/ InCalls("ClusterNetwork.Update")

CheckerCalled ==
    \/ InCalls("GetHostIPNetworks")
    \/ InCalls("HostSubnets.List")
    \/ InCalls("Services.List")

Recognized == IsOpenShiftNetworkPlugin(networkConfig.NetworkPluginName)

\* An IPv4 address written in its 16-byte form is that IPv4 address.
AsV4(ip) ==
    IF Len(ip) = 16 /\ (\A i \in 1..10 : ip[i] = 0) /\ ip[11] = 255 /\ ip[12] = 255
    THEN <<ip[13], ip[14], ip[15], ip[16]>>
    ELSE ip

\* A network of such addresses is the IPv4 network of the same range.
NetAsV4(n) ==
    IF AsV4(n.IP) /= n.IP THEN [IP |-> AsV4(n.IP), Len |-> n.Len - 96] ELSE n

\* An address lies in a network when it is of the network's family and its
\* first Len bits are the network's.
InRange(ip, n) ==
    LET x == AsV4(ip)
        m == NetAsV4(n)
    IN  /\ Len(x) = Len(m.IP)
        /\ \A i \in 1..Len(x) :
              x[i] \div Pow2(8 - MaskBits(i, m.Len)) = m.IP[i] \div Pow2(8 - MaskBits(i, m.Len))

\* A network lies in a network when its whole range does.
NetWithin(sub, n) == NetAsV4(sub).Len >= NetAsV4(n).Len /\ InRange(sub.IP, n)

\* The text of an IPv4 or an IPv6 address.
IsIPText(s) == s.kind \in {"ip", "ip6"}

\* What the fleet audit owes for one HostSubnet and for one Service.
SubnetVerdict(ni, sub) ==
    IF ~ParseCIDR(sub).ok THEN "failed to parse network address"
    ELSE IF ~InRange(ParseCIDR(sub).ip, ni.ClusterNetwork)
    THEN "existing node subnet is not part of cluster network"
    ELSE "ok"

ServiceVerdict(ni, clusterIP) ==
    IF IsIPText(clusterIP) /\ ~InRange(clusterIP.ip, ni.ServiceNetwork)
    THEN "existing service with IP is not part of service network"
    ELSE "ok"

ExpectedFleetViolations ==
    LET sub == [i \in 1..Len(hostSubnets) |->
                   <<SubnetVerdict(networkInfo, hostSubnets[i]), hostSubnets[i]>>]
        svc == [i \in 1..Len(services) |->
                   <<ServiceVerdict(networkInfo, services[i]), services[i]>>]
    IN  SelectSeq(sub \o svc, LAMBDA p : p[1] /= "ok")

Reported(e) == [i \in 1..Len(e.errs) |-> <<e.errs[i].msg, e.errs[i].arg>>]

\* The fleet audit of this invocation issued both List calls and both succeeded.
FleetAuditCompleted ==
    /\ InCalls("Services.List")
    /\ ~(Done /\ exitAt = "objects" /\ err.kind /= "Aggregate")

\* The violations the fleet audit of this invocation returned.
FleetAuditErrs ==
    IF Done /\ exitAt = "objects" /\ err.kind = "Aggregate" THEN Reported(err) ELSE <<>>

\* The record the desired configuration of this invocation describes.
DesiredRecord == PopulateCN(FreshCN, networkInfo, networkConfig)

\* ------------------------------------------------------------------------
\* Properties
\* ------------------------------------------------------------------------

\* The violations validation has to find for this invocation's candidate.
ValidationFinds ==
    \/ HostConflicts(networkInfo, hostIPNets) /= <<>>
    \/ ExpectedFleetViolations /= <<>>

\* C1 -- No partial write. An invocation that a checker ends (a violation, or
\* a failure of one of its calls) has issued no Create and no Update and the
\* store holds what it held when the invocation began; and no invocation that
\* needs a create or an update writes while the host networks or the fleet
\* hold a violation.
C1_NoPartialWrite ==
    /\ (Done /\ exitAt \in {"local", "objects"}) => (~Wrote /\ persisted = pre)
    /\ (pc /= "idle" /\ (createConfig \/ updateConfig) /\ ValidationFinds)
          => (~Wrote /\ persisted = pre)

\* An update was needed, the fleet audit found violations, the record that
\* existed before is still there.
C1_Witness ==
    /\ Done /\ exitAt = "objects" /\ err.kind = "Aggregate"
    /\ updateConfig /\ Len(pre) = 1 /\ persisted = pre

\* C2 -- Create only on not-found. The create path is taken only when the Get
\* failed with a not-found error; after a Get that failed with any other
\* error the invocation has ended with that error and has issued nothing
\* beyond the Get.
C2_CreateOnlyOnNotFound ==
    /\ createConfig => getErr.kind = "NotFound"
    /\ (pc /= "idle" /\ getErr.kind = "Transport")
          => (Done /\ err = getErr /\ ~CheckerCalled /\ ~Wrote
              /\ ~InCalls("SubnetStartMaster") /\ ~InCalls("VnidStartMaster"))

\* C3 -- Containment. After an invocation whose Create or Update succeeded,
\* every HostSubnet of the fleet parses and its whole range lies in the
\* Network of the persisted record.
WriteSucceeded ==
    /\ Wrote
    /\ pc /= "write"
    /\ ~(Done /\ exitAt \in {"create", "update"})

C3_Containment ==
    (Done /\ WriteSucceeded /\ Len(persisted) = 1) =>
        \A i \in 1..Len(hostSubnets) :
            /\ ParseCIDR(hostSubnets[i]).ok
            /\ NetWithin(ParseCIDR(hostSubnets[i]).net, ParseCIDR(persisted[1].Network).net)

\* C4 -- Idempotence. An invocation that follows a successful one with the
\* identical desired configuration (the fleet is the same) issues no Create
\* and no Update and leaves the store as it found it.
C4_Idempotent ==
    (Done /\ prev.valid /\ prev.err = NilErr /\ prev.cfg = networkConfig)
        => (~Wrote /\ persisted = pre)

\* C5 -- No validation on a no-op. When the Get found the record and its four
\* fields equal the desired configuration, the invocation enumerates no host
\* interface, lists neither HostSubnets nor Services, and issues no Create
\* and no Update, whatever the fleet holds.
NoOpCase ==
    /\ InCalls("ClusterNetwork.Get")
    /\ getErr = NilErr
    /\ Len(pre) = 1
    /\ pre[1].Network = DesiredRecord.Network
    /\ pre[1].HostSubnetLength = DesiredRecord.HostSubnetLength
    /\ pre[1].ServiceNetwork = DesiredRecord.ServiceNetwork
    /\ pre[1].PluginName = DesiredRecord.PluginName

C5_NoOpSkipsValidation ==
    NoOpCase => (~CheckerCalled /\ ~Wrote /\ persisted = pre)

\* A no-op that ran to its end over a fleet the desired networks do not
\* contain, the configured cluster CIDR not being in canonical form.
C5_Witness ==
    /\ NoOpCase /\ Done /\ exitAt = "end"
    /\ ExpectedFleetViolations /= <<>>
    /\ networkConfig.ClusterNetworkCIDR /= DesiredRecord.Network
    /\ ~CheckerCalled

\* C6 -- Aggregation completeness of the fleet audit. When both List calls
\* succeed, the returned error lists, in scan order (HostSubnets first, then
\* Services), one parse failure for every HostSubnet that does not parse, one
\* containment violation for every parsed HostSubnet whose address is outside
\* the cluster network and one for every service IP outside the service
\* network; it is nil exactly when there is none.
C6_AggregationComplete ==
    FleetAuditCompleted =>
        /\ FleetAuditErrs = ExpectedFleetViolations
        /\ (Done /\ exitAt = "objects") <=> ExpectedFleetViolations /= <<>>

\* Two HostSubnets and one Service in violation, all three reported.
C6_Witness ==
    /\ FleetAuditCompleted /\ Done /\ exitAt = "objects"
    /\ Len(err.errs) = 3
    /\ err.errs[1].msg = "failed to parse network address"
    /\ err.errs[2].msg = "existing node subnet is not part of cluster network"
    /\ err.errs[3].msg = "existing service with IP is not part of service network"

\* The host networks that intersect the candidate cluster network, in order.
ExpectedHostConflicts ==
    LET n == [i \in 1..Len(hostIPNets) |-> <<"cluster IP conflicts with host network",
                                             IPNetString(hostIPNets[i])>>]
    IN  SelectSeq(n, LAMBDA p :
            LET h == ParseCIDR(p[2]).net
            IN  InRange(h.IP, networkInfo.ClusterNetwork)
                \/ InRange(networkInfo.ClusterNetwork.IP, h))

ValidationFailed == Done /\ exitAt \in {"local", "objects"} /\ err.kind = "Aggregate"

\* C7 as stated -- the error of a failed validation lists every violation,
\* host conflicts and fleet violations alike.
C7_EveryViolationListed ==
    ValidationFailed => Reported(err) = ExpectedHostConflicts \o ExpectedFleetViolations

\* C7 as amended -- the error of a failed validation lists every violation
\* of the checker that failed: every conflicting host network when the local
\* check fails, and then no List call was issued; every fleet violation when
\* the local check passed and the fleet audit fails.
C7_EveryViolationOfFailedChecker ==
    /\ (ValidationFailed /\ exitAt = "local")
          => /\ Reported(err) = ExpectedHostConflicts
             /\ ~InCalls("HostSubnets.List") /\ ~InCalls("Services.List")
    /\ (ValidationFailed /\ exitAt = "objects")
          => /\ Reported(err) = ExpectedFleetViolations
             /\ ExpectedHostConflicts = <<>>

\* The local check failed over a fleet that holds several violations.
C7_Witness ==
    /\ ValidationFailed /\ exitAt = "local"
    /\ Len(ExpectedFleetViolations) >= 2
    /\ Reported(err) = ExpectedHostConflicts

ServiceReported(clusterIP) ==
    \E i \in 1..Len(FleetAuditErrs) :
        FleetAuditErrs[i] =
            <<"existing service with IP is not part of service network", clusterIP>>

\* C8 as stated -- every Service whose ClusterIP is non-empty and is not an
\* address of the service network is reported, whether it parses or not.
C8_NonEmptyOutsideReported ==
    FleetAuditCompleted =>
        \A j \in 1..Len(services) :
            (services[j] /= Text("")
             /\ ~(IsIPText(services[j])
                  /\ InRange(services[j].ip, networkInfo.ServiceNetwork)))
                => ServiceReported(services[j])

\* C8 as amended -- a Service is reported exactly when its ClusterIP parses
\* as an IP address (IPv4 or IPv6) and lies outside the service network; a
\* ClusterIP that does not parse (empty, or a marker such as "None") is never
\* reported.
C8_ParsedOutsideReported ==
    FleetAuditCompleted =>
        \A j \in 1..Len(services) :
            ServiceReported(services[j])
                <=> (IsIPText(services[j])
                     /\ ~InRange(services[j].ip, networkInfo.ServiceNetwork))

\* A Service marked "None" next to one outside the service network
\* ("fd00::1"): the audit reports the second and not the first.
C8_Witness ==
    /\ FleetAuditCompleted
    /\ \E j \in 1..Len(services) : services[j] = Text("None")
    /\ ServiceReported(IP6Str(FD00_1))
    /\ ~ServiceReported(Text("None"))

\* C9 -- Unrecognized plugin. An invocation whose plugin name is none of the
\* OpenShift network plugins returns nil whatever the CIDR strings are, and
\* has parsed nothing, fetched nothing, run no checker, written nothing and
\* started neither subnet allocation nor VNID tracking.
C9_UnrecognizedPluginIsNoOp ==
    (pc /= "idle"
     /\ networkConfig.NetworkPluginName \notin
            {SingleTenantPluginName, MultiTenantPluginName, NetworkPolicyPluginName})
        => /\ Done /\ err = NilErr
           /\ calls = <<>>
           /\ persisted = pre
           /\ vnids = "nil"

\* An unrecognized plugin together with a cluster CIDR that does not parse.
C9_Witness ==
    /\ Done /\ exitAt = "plugin" /\ err = NilErr /\ calls = <<>>
    /\ networkConfig.NetworkPluginName = "cni"
    /\ networkConfig.ClusterNetworkCIDR = Text("bogus")

Position(c) == CHOOSE i \in 1..Len(calls) : calls[i] = c

\* C10 -- Subnet allocation. SubnetStartMaster is called at most once per
\* invocation; it has been called once in every finished invocation that got
\* past the reconciliation (no-op, create or update alike) and never in one
\* that parseNetworkInfo, a checker or the Create/Update ended; and when the
\* invocation needed a write, the call comes after the write and the store
\* holds the written record.
C10_SubnetAllocationAfterReconcile ==
    /\ Count("SubnetStartMaster") <= 1
    /\ (Done /\ exitAt \in {"subnet", "vnid", "end"}) => Count("SubnetStartMaster") = 1
    /\ (Done /\ exitAt \in {"parse", "local", "objects", "create", "update"})
          => Count("SubnetStartMaster") = 0
    /\ (InCalls("SubnetStartMaster") /\ (createConfig \/ updateConfig))
          => /\ Count("ClusterNetwork.Create") + Count("ClusterNetwork.Update") = 1
             /\ \A i \in 1..Len(calls) :
                   calls[i] \in {"ClusterNetwork.Create", "ClusterNetwork.Update"}
                       => i < Position("SubnetStartMaster")
             /\ persisted = <<DesiredRecord>>
    /\ (InCalls("SubnetStartMaster") /\ ~createConfig /\ ~updateConfig) => ~Wrote

\* An update was written and subnet allocation started after it.
C10_Witness ==
    /\ Done /\ exitAt = "end"
    /\ calls = <<"parseNetworkInfo", "ClusterNetwork.Get", "GetHostIPNetworks",
                 "HostSubnets.List", "Services.List", "ClusterNetwork.Update",
                 "SubnetStartMaster">>
    /\ persisted /= pre

\* C11 -- VNID dispatch. Past a successful SubnetStartMaster, the multi-tenant
\* plugin starts VNID tracking with newMasterVNIDMap(true), the network-policy
\* plugin with newMasterVNIDMap(false), and any other recognized plugin starts
\* none and returns nil; VnidStartMaster is never called in an invocation
\* whose SubnetStartMaster failed or was not reached.
C11_VnidDispatch ==
    /\ InCalls("VnidStartMaster")
          => /\ InCalls("SubnetStartMaster")
             /\ Position("SubnetStartMaster") < Position("VnidStartMaster")
             /\ Count("VnidStartMaster") = 1
             /\ exitAt \in {"vnid", "end"}
    /\ (Done /\ exitAt \in {"vnid", "end"}
        /\ networkConfig.NetworkPluginName = MultiTenantPluginName)
          => (InCalls("VnidStartMaster") /\ vnids = "multiTenant")
    /\ (Done /\ exitAt \in {"vnid", "end"}
        /\ networkConfig.NetworkPluginName = NetworkPolicyPluginName)
          => (InCalls("VnidStartMaster") /\ vnids = "shared")
    /\ (Done /\ exitAt \in {"vnid", "end"}
        /\ networkConfig.NetworkPluginName
               \notin {MultiTenantPluginName, NetworkPolicyPluginName})
          => (~InCalls("VnidStartMaster") /\ vnids = "nil"
              /\ exitAt = "end" /\ err = NilErr)
    /\ (Done /\ exitAt \notin {"vnid", "end"})
          => (~InCalls("VnidStartMaster") /\ vnids = "nil")

\* The network-policy plugin ran to the end with shared VNIDs.
C11_Witness ==
    /\ Done /\ exitAt = "end" /\ err = NilErr
    /\ networkConfig.NetworkPluginName = NetworkPolicyPluginName
    /\ vnids = "shared"
    /\ InCalls("VnidStartMaster")

\* The Get found the record and one of its four fields is not the desired one.
UpdateCase ==
    /\ InCalls("ClusterNetwork.Get")
    /\ getErr = NilErr
    /\ Len(pre) = 1
    /\ \/ pre[1].Network /= DesiredRecord.Network
       \/ pre[1].HostSubnetLength /= DesiredRecord.HostSubnetLength
       \/ pre[1].ServiceNetwork /= DesiredRecord.ServiceNetwork
       \/ pre[1].PluginName /= DesiredRecord.PluginName

\* C12 -- Update on any field difference. When the Get finds a record that
\* differs from the desired configuration in at least one field (be it only
\* PluginName or only HostSubnetLength), the invocation takes the update
\* path: the local check runs, the fleet audit runs when the local check
\* passes, no Create is issued, and past both checks exactly one Update is
\* issued, carrying the four desired values, which the store then holds
\* unless the Update call itself fails.
C12_UpdateOnAnyDifference ==
    UpdateCase =>
        /\ updateConfig /\ ~createConfig
        /\ ~InCalls("ClusterNetwork.Create")
        /\ Done => InCalls("GetHostIPNetworks")
        /\ (Done /\ exitAt /= "local") => InCalls("HostSubnets.List")
        /\ (Done /\ exitAt \notin {"local", "objects"})
              => /\ Count("ClusterNetwork.Update") = 1
                 /\ cn = DesiredRecord
                 /\ exitAt /= "update" => persisted = <<DesiredRecord>>
        /\ (Done /\ exitAt \in {"local", "objects"}) => ~Wrote

\* Scenario C: the record has host subnet length 9, the desired one is 8, the
\* fleet's subnets 10.131.0.0/23 and ::ffff:10.128.0.1/128 lie in the cluster
\* network: updated.
C12_Witness ==
    /\ UpdateCase /\ Done /\ exitAt = "end"
    /\ pre[1].HostSubnetLength = 9
    /\ networkConfig = [ScenarioA EXCEPT !.HostSubnetLength = 8]
    /\ pre[1].PluginName = networkConfig.NetworkPluginName
    /\ hostSubnets = <<CIDRStr(10, 131, 0, 0, 23), CIDR6Str(IPv4(<<10, 128, 0, 1>>), 128)>>
    /\ persisted = <<DesiredRecord>>
    /\ Count("ClusterNetwork.Update") = 1

\* C13 -- Converged record. After every invocation with a recognized plugin
\* that returns nil, the store holds the record named "default" and its
\* Network, HostSubnetLength, ServiceNetwork and PluginName are the desired
\* ones of that invocation.
C13_SuccessMeansConverged ==
    (Done /\ err = NilErr
     /\ networkConfig.NetworkPluginName \in
            {SingleTenantPluginName, MultiTenantPluginName, NetworkPolicyPluginName})
        => /\ Len(persisted) = 1
           /\ persisted[1].Name = ClusterNetworkDefault
           /\ persisted[1].Network = IPNetString(ParseCIDR(networkConfig.ClusterNetworkCIDR).net)
           /\ persisted[1].HostSubnetLength = networkConfig.HostSubnetLength
           /\ persisted[1].ServiceNetwork = IPNetString(ParseCIDR(networkConfig.ServiceNetworkCIDR).net)
           /\ persisted[1].PluginName = networkConfig.NetworkPluginName

\* Scenario A: no record, an empty fleet, the multi-tenant plugin: the record
\* is created with the desired fields and both bootstraps are started.
C13_Witness ==
    /\ Done /\ err = NilErr /\ exitAt = "end"
    /\ pre = <<>> /\ hostSubnets = <<>> /\ services = <<>>
    /\ networkConfig = ScenarioA
    /\ InCalls("ClusterNetwork.Create")
    /\ persisted = <<[Name |-> "default", Network |-> CIDRStr(10, 128, 0, 0, 14),
                      HostSubnetLength |-> 9, ServiceNetwork |-> CIDRStr(172, 30, 0, 0, 16),
                      PluginName |-> MultiTenantPluginName]>>
    /\ InCalls("SubnetStartMaster") /\ InCalls("VnidStartMaster") /\ vnids = "multiTenant"

\* The record of the invocation before this one, when that one was ended by
\* a bootstrap call.
AfterFailedBootstrap ==
    /\ prev.valid
    /\ prev.exitAt \in {"subnet", "vnid"}
    /\ prev.cfg = networkConfig

\* C14 -- Bootstrap failure and retry. An invocation ended by a bootstrap
\* call returns that call's error with the store holding the desired record;
\* the invocation that follows with the same inputs issues no Create and no
\* Update, runs no checker, and, its Get answered, calls SubnetStartMaster
\* again.
C14_BootstrapRetryIsNoOp ==
    /\ (Done /\ exitAt \in {"subnet", "vnid"})
          => (err.kind = "BootstrapError" /\ persisted = <<DesiredRecord>>)
    /\ (Done /\ AfterFailedBootstrap)
          => /\ ~Wrote
             /\ ~CheckerCalled
             /\ getErr = NilErr => InCalls("SubnetStartMaster")

\* C15 -- A failed write is fatal. An invocation issues at most one Create or
\* Update; when that call fails the invocation returns its error, with the
\* store as it was and neither SubnetStartMaster nor VnidStartMaster called.
C15_WriteFailureIsFatal ==
    /\ Count("ClusterNetwork.Create") + Count("ClusterNetwork.Update") <= 1
    /\ (Done /\ exitAt \in {"create", "update"})
          => /\ err.kind \in {"Transport", "AlreadyExists", "NotFound"}
             /\ persisted = pre
             /\ ~InCalls("SubnetStartMaster") /\ ~InCalls("VnidStartMaster")
             /\ vnids = "nil"
    /\ (Wrote /\ pc /= "write" /\ persisted /= <<cn>>)
          => (Done /\ exitAt \in {"create", "update"} /\ err /= NilErr)

\* An Update that failed with a transport error ended the invocation.
C15_Witness ==
    /\ Done /\ exitAt = "update" /\ err = TransportErr
    /\ Count("ClusterNetwork.Update") = 1
    /\ persisted = pre /\ persisted /= <<cn>>
    /\ ~InCalls("SubnetStartMaster")

\* The desired CIDR strings of this invocation do not make a NetworkInfo.
BadNetworkConfig ==
    \/ ~ParseCIDR(networkConfig.ClusterNetworkCIDR).ok
    \/ ~ParseCIDR(networkConfig.ServiceNetworkCIDR).ok
    \/ ParseCIDR(networkConfig.ClusterNetworkCIDR).net.Len = 0
    \/ ParseCIDR(networkConfig.ServiceNetworkCIDR).net.Len = 0
    \/ InRange(ParseCIDR(networkConfig.ClusterNetworkCIDR).net.IP,
               ParseCIDR(networkConfig.ServiceNetworkCIDR).net)
    \/ InRange(ParseCIDR(networkConfig.ServiceNetworkCIDR).net.IP,
               ParseCIDR(networkConfig.ClusterNetworkCIDR).net)

\* C16 -- NetworkInfo first. parseNetworkInfo comes before every other call
\* of an invocation; when it fails the invocation returns the configuration
\* error having fetched nothing, enumerated no host interface, listed
\* neither HostSubnets nor Services, written nothing and started no
\* bootstrap.
C16_ParseBeforeAnyAccess ==
    /\ Len(calls) > 0 => calls[1] = "parseNetworkInfo"
    /\ (pc /= "idle" /\ Recognized /\ BadNetworkConfig)
          => /\ Done /\ exitAt = "parse"
             /\ err.kind = "ConfigurationError"
             /\ calls = <<"parseNetworkInfo">>
             /\ persisted = pre
             /\ vnids = "nil"

\* A service network inside the cluster network, over an existing record.
C16_Witness ==
    /\ Done /\ exitAt = "parse" /\ err.kind = "ConfigurationError"
    /\ networkConfig.ServiceNetworkCIDR = CIDRStr(10, 130, 0, 0, 16)
    /\ Len(persisted) = 1
    /\ calls = <<"parseNetworkInfo">>

\* A List call of the fleet audit of this invocation failed.
ListFailed ==
    \/ InCalls("HostSubnets.List") /\ ~InCalls("Services.List") /\ pc /= "checkServices"
    \/ Done /\ exitAt = "objects" /\ err.kind = "Transport"

\* C17 -- No error is swallowed. A failed HostSubnets or Services List ends
\* the invocation with an error for it, with no Create, no Update and no
\* bootstrap call; and an invocation whose Get of the record failed with a
\* transport error does not return nil.
C17_NoErrorSwallowed ==
    /\ ListFailed
          => /\ Done /\ exitAt = "objects"
             /\ err.kind \in {"SubnetsFetchError", "Transport"}
             /\ ~Wrote
             /\ ~InCalls("SubnetStartMaster") /\ ~InCalls("VnidStartMaster")
    /\ (Done /\ getErr.kind = "Transport") => err /= NilErr

\* C18 -- One outcome, one write. createConfig and updateConfig are never
\* both true; an invocation issues at most one Create or Update; a Create
\* only after a Get that returned an error, an Update only after a Get that
\* returned a record differing from the desired configuration; and every
\* Create or Update comes after the local check and then the fleet audit of
\* the same invocation, both passed.
C18_OneOutcomeOneWrite ==
    /\ ~(createConfig /\ updateConfig)
    /\ Count("ClusterNetwork.Create") + Count("ClusterNetwork.Update") <= 1
    /\ InCalls("ClusterNetwork.Create") => (createConfig /\ getErr /= NilErr)
    /\ InCalls("ClusterNetwork.Update") => (updateConfig /\ UpdateCase)
    /\ Wrote
          => /\ SubSeq(calls, 1, 5) = <<"parseNetworkInfo", "ClusterNetwork.Get",
                                      "GetHostIPNetworks", "HostSubnets.List",
                                      "Services.List">>
             /\ calls[6] \in {"ClusterNetwork.Create", "ClusterNetwork.Update"}
             /\ ExpectedHostConflicts = <<>>
             /\ ExpectedFleetViolations = <<>>

\* A Create after a not-found Get and both checks, over a fleet that passes.
C18_Witness ==
    /\ Done /\ exitAt = "end" /\ getErr.kind = "NotFound"
    /\ createConfig /\ ~updateConfig
    /\ Len(hostSubnets) > 0 /\ Len(services) > 0
    /\ calls = <<"parseNetworkInfo", "ClusterNetwork.Get", "GetHostIPNetworks",
                 "HostSubnets.List", "Services.List", "ClusterNetwork.Create",
                 "SubnetStartMaster", "VnidStartMaster">>

ServiceMsg == "existing service with IP is not part of service network"

\* C19 -- Order of validation. For a create or an update the host interfaces
\* are enumerated before HostSubnets are listed, and HostSubnets are listed
\* (and their violations recorded) before Services are listed; a failed
\* HostSubnets List leaves Services unlisted, and a failed local check leaves
\* both unlisted.
C19_ValidationOrder ==
    /\ ((createConfig \/ updateConfig) /\ pc /= "checkLocal")
          => InCalls("GetHostIPNetworks")
    /\ InCalls("HostSubnets.List")
          => /\ InCalls("GetHostIPNetworks")
             /\ Position("GetHostIPNetworks") < Position("HostSubnets.List")
    /\ InCalls("Services.List")
          => /\ InCalls("HostSubnets.List")
             /\ Position("HostSubnets.List") < Position("Services.List")
    /\ (Done /\ exitAt = "local")
          => (~InCalls("HostSubnets.List") /\ ~InCalls("Services.List"))
    /\ (Done /\ exitAt = "objects" /\ err.kind = "SubnetsFetchError")
          => ~InCalls("Services.List")
    /\ (Done /\ exitAt = "objects" /\ err.kind = "Aggregate")
          => \A i, j \in 1..Len(err.errs) :
                (i < j /\ err.errs[i].msg = ServiceMsg) => err.errs[j].msg = ServiceMsg

\* Both lists were read after the local check, and the audit reports a
\* HostSubnet ahead of a Service.
C19_Witness ==
    /\ Done /\ exitAt = "objects" /\ err.kind = "Aggregate"
    /\ calls = <<"parseNetworkInfo", "ClusterNetwork.Get", "GetHostIPNetworks",
                 "HostSubnets.List", "Services.List">>
    /\ Len(err.errs) >= 2
    /\ err.errs[1].msg /= ServiceMsg
    /\ err.errs[Len(err.errs)].msg = ServiceMsg

\* C20 -- Frame. No step of StartMaster changes the HostSubnets or the
\* Services of the fleet; the entry of an invocation with a recognized plugin
\* makes hostSubnetNodeIPs empty, and the reconciliation steps (Get, field
\* comparison, local check, fleet audit, Create/Update) leave it as it is, so
\* that it is still empty when SubnetStartMaster is reached.
C20_ReconcileFrame ==
    [][ /\ hostSubnets' = hostSubnets
        /\ services' = services
        /\ (pc \in {"idle", "done"}
            /\ IsOpenShiftNetworkPlugin(networkConfig'.NetworkPluginName))
              => hostSubnetNodeIPs' = {}
        /\ pc \in {"get", "checkLocal", "checkObjects", "checkServices", "write"}
              => hostSubnetNodeIPs' = hostSubnetNodeIPs
        /\ pc' \in {"get", "checkLocal", "checkObjects", "checkServices", "write", "subnet"}
              => hostSubnetNodeIPs' = {}
      ]_vars

\* A second invocation that audited a non-empty fleet and wrote the record,
\* about to start the allocator, after a first one whose allocator recorded
\* a node IP.
C20_Witness ==
    /\ pc = "subnet" /\ Wrote /\ CheckerCalled
    /\ Len(hostSubnets) > 0 /\ Len(services) > 0
    /\ hostSubnetNodeIPs = {}
    /\ prev.valid /\ prev.exitAt = "end"

====
